---- MODULE Spec2Model ----
(***************************************************************************)
(* Contact identity reconciliation (POST /identify) of the Bitespeed       *)
(* contact service, src/unnamed/part_000.                                  *)
(*                                                                         *)
(* The store is the SQLite table Contact.  Every db.all / db.run of the    *)
(* handler is one atomic step on the store; the JavaScript callback that   *)
(* consumes its result touches only request-local state, so it is folded   *)
(* into the same step.  Column updatedAt is written but never read by any  *)
(* query or callback and is left out of the rows.                          *)
(***************************************************************************)
EXTENDS Integers, Sequences, FiniteSets, TLC

VARIABLES
    contacts,          \* the Contact table: row i has id i (AUTOINCREMENT)
    pc,                \* per request: the store call it is waiting for
    email,             \* per request: req.body.email
    phoneNumber,       \* per request: req.body.phoneNumber
    existingContacts,  \* per request: rows returned by findContactsByEmailOrPhone
    pending,           \* per request: queued chain lookups, as chainId -> how many
    contactChains,     \* per request: the Map chainId -> rows, in insertion order
    target,            \* per request: primaryContact.id / oldestPrimary.id
    demoteQ,           \* per request: primaries whose demotion UPDATE is queued
    reparentQ,         \* per request: demoted primaries whose children UPDATE is queued
    res,               \* per request: the HTTP response sent, or NoRes
    snap,              \* history: the table when the request was received
    started,           \* history: requests received so far (counted in bounded runs)
    again              \* history: the primary id answered before, when the request is a retry

vars == <<contacts, pc, email, phoneNumber, existingContacts, pending,
          contactChains, target, demoteQ, reparentQ, res, snap, started, again>>

locals == <<existingContacts, pending, contactChains, target, demoteQ, reparentQ>>

----------------------------------------------------------------------------
(* Bounds and value spaces *)

MaxContacts == 3
MaxRequests == 3
SeedRows == 3
MaxMergers == 2

Null == "NULL"
NullId == 0
Emails == {"e1", "e2"}
Phones == {"p1", "p2"}
Reqs == {"r1", "r2"}

NoRes == [status |-> 0]

(* res.status(500).json({ error: ... }) *)
Failure(text) == [status |-> 500, error |-> text]

TruthyAlways(v) == TRUE

(* JavaScript truthiness of a request field: undefined/null (and "") are falsy *)
Truthy(v) == v # Null /\ v # ""

(* phoneNumber || null, email || null *)
OrNull(v) == IF Truthy(v) THEN v ELSE Null

----------------------------------------------------------------------------
(* Sequence helpers *)

Range(s) == {s[i] : i \in 1..Len(s)}

RECURSIVE Dedup(_, _)
Dedup(s, seen) ==
    IF s = <<>> THEN <<>>
    ELSE IF Head(s) \in seen THEN Dedup(Tail(s), seen)
    ELSE <<Head(s)>> \o Dedup(Tail(s), seen \cup {Head(s)})

UniqueTruthyNoSet(s) == SelectSeq(s, Truthy)

(* [...new Set(xs.filter(Boolean))] *)
UniqueTruthy(s) == Dedup(SelectSeq(s, Truthy), {})

----------------------------------------------------------------------------
(* The table *)

Rows(S) == Range(S)

Live(c) == c.deletedAt = Null

NewRowSwapped(S, e, p, link, prec, t) ==
    [id |-> Len(S) + 1, email |-> OrNull(p), phoneNumber |-> OrNull(e),
     linkedId |-> link, linkPrecedence |-> prec, createdAt |-> t,
     deletedAt |-> Null]

(* INSERT INTO Contact (phoneNumber, email, linkedId, linkPrecedence, createdAt, ...) *)
NewRow(S, e, p, link, prec, t) ==
    [id |-> Len(S) + 1, email |-> OrNull(e), phoneNumber |-> OrNull(p),
     linkedId |-> link, linkPrecedence |-> prec, createdAt |-> t,
     deletedAt |-> Null]

Insert(S, e, p, link, prec, t) == Append(S, NewRow(S, e, p, link, prec, t))

(* CURRENT_TIMESTAMP has a resolution of one second and never runs backwards.  The
   code only compares createdAt values, so seconds are counted as they are used: a
   new row falls in the second of the latest row or in the next one that is used. *)
CurrentTimestamp(S) ==
    IF S = <<>> THEN {1} ELSE {S[Len(S)].createdAt, S[Len(S)].createdAt + 1}

findContactsByEmailOnly(S, e, p) ==
    {c \in Rows(S) : Live(c) /\ Truthy(e) /\ c.email = e}

(* SELECT * FROM Contact WHERE deletedAt IS NULL AND (email = ? OR phoneNumber = ?) *)
findContactsByEmailOrPhone(S, e, p) ==
    {c \in Rows(S) : Live(c) /\ (   (Truthy(e) /\ c.email = e)
                                 \/ (Truthy(p) /\ c.phoneNumber = p))}

(* The recursive common table expression of getAllContactsInChain *)
RECURSIVE ChainClosure(_, _)
ChainClosure(S, got) ==
    LET more == {c \in Rows(S) : Live(c) /\ c.linkedId \in {g.id : g \in got}}
    IN IF more \subseteq got THEN got ELSE ChainClosure(S, got \cup more)

ChainBase(S, contactId) ==
    {c \in Rows(S) : (c.id = contactId \/ c.linkedId = contactId)
                     /\ Live(c) /\ c.linkPrecedence = "primary"}

getPrimaryOnly(S, contactId) == ChainBase(S, contactId)

getAllContactsInChain(S, contactId) == ChainClosure(S, ChainBase(S, contactId))

(* ORDER BY linkPrecedence DESC, createdAt ASC: 'secondary' > 'primary', so the
   secondaries come first; rows with equal keys come in an order SQL leaves open. *)
Before(a, b) ==
    \/ a.linkPrecedence = "secondary" /\ b.linkPrecedence = "primary"
    \/ a.linkPrecedence = b.linkPrecedence /\ a.createdAt < b.createdAt

First(R) == {a \in R : \A b \in R : ~Before(b, a)}

RECURSIVE ChainOrders(_)
ChainOrders(R) ==
    IF R = {} THEN {<<>>}
    ELSE UNION {{<<a>> \o t : t \in ChainOrders(R \ {a})} : a \in First(R)}

----------------------------------------------------------------------------
(* no request in progress *)
Idle ==
    /\ pc = [r \in Reqs |-> "idle"]
    /\ email = [r \in Reqs |-> Null]
    /\ phoneNumber = [r \in Reqs |-> Null]
    /\ existingContacts = [r \in Reqs |-> {}]
    /\ pending = [r \in Reqs |-> {}]
    /\ contactChains = [r \in Reqs |-> <<>>]
    /\ target = [r \in Reqs |-> NullId]
    /\ demoteQ = [r \in Reqs |-> {}]
    /\ reparentQ = [r \in Reqs |-> {}]
    /\ res = [r \in Reqs |-> NoRes]
    /\ snap = [r \in Reqs |-> <<>>]
    /\ again = [r \in Reqs |-> NullId]
    /\ started = 0

Init ==
    /\ contacts = <<>>
    /\ Idle

----------------------------------------------------------------------------
(* Request-local helpers *)

Active == {"insertPrimary", "chains", "demote", "insertSecondary", "refresh"}


(* const chainId = contact.linkPrecedence === 'primary' ? contact.id : contact.linkedId *)
ChainIdOf(c) == IF c.linkPrecedence = "primary" THEN c.id ELSE c.linkedId

(* existingContacts.forEach(contact => getAllContactsInChain(chainId, ...)): one
   lookup per matched row; lookups of one chainId are the same query *)
Lookups(m) ==
    {[chainId |-> k, n |-> Cardinality({c \in m : ChainIdOf(c) = k})] :
        k \in {ChainIdOf(c) : c \in m}}

TakeLookup(q, l) ==
    (q \ {l}) \cup (IF l.n > 1 THEN {[chainId |-> l.chainId, n |-> l.n - 1]} ELSE {})

(* contactChains.set(chainId, chainContacts): a Map keeps a key's first position *)
MapSet(cc, k, rows) ==
    IF \E i \in 1..Len(cc) : cc[i].chainId = k
    THEN [i \in 1..Len(cc) |-> IF cc[i].chainId = k
                               THEN [chainId |-> k, rows |-> rows] ELSE cc[i]]
    ELSE Append(cc, [chainId |-> k, rows |-> rows])

(* Array.from(contactChains.values()).flat(), as the set of its rows *)
AllContacts(cc) == UNION {cc[i].rows : i \in 1..Len(cc)}

PrimariesOf(rows) == {c \in rows : c.linkPrecedence = "primary"}

(* allContacts.filter(c => c.linkPrecedence === 'primary'), in Map order *)
RECURSIVE PrimaryContacts(_)
PrimaryContacts(cc) ==
    IF cc = <<>> THEN <<>>
    ELSE LET ps == PrimariesOf(Head(cc).rows)
         IN (IF ps = {} THEN <<>> ELSE CHOOSE s \in ChainOrders(ps) : TRUE)
            \o PrimaryContacts(Tail(cc))

LastIndex(ps) == Len(ps)

NewestIndex(ps) ==
    CHOOSE i \in 1..Len(ps) :
        /\ \A j \in 1..Len(ps) : ps[i].createdAt >= ps[j].createdAt
        /\ \A j \in 1..(i - 1) : ps[j].createdAt < ps[i].createdAt

(* primaryContacts.sort((a, b) => new Date(a.createdAt) - new Date(b.createdAt))[0]:
   Array.prototype.sort is stable, so among equal createdAt the first in Map order *)
OldestIndex(ps) ==
    CHOOSE i \in 1..Len(ps) :
        /\ \A j \in 1..Len(ps) : ps[i].createdAt <= ps[j].createdAt
        /\ \A j \in 1..(i - 1) : ps[j].createdAt > ps[i].createdAt

HasEmail(rows, e) == Truthy(e) /\ \E c \in rows : c.email = e

HasPhoneWrongColumn(rows, p) == Truthy(p) /\ \E c \in rows : c.email = p

HasPhone(rows, p) == Truthy(p) /\ \E c \in rows : c.phoneNumber = p

SingleNeedsInsertBothMissing(rows, e, p) == ~HasEmail(rows, e) /\ ~HasPhone(rows, p)

(* if (!hasEmail || !hasPhone), the test of the single-chain branch *)
SingleNeedsInsert(rows, e, p) == ~HasEmail(rows, e) \/ ~HasPhone(rows, p)

MergeNeedsInsertAlways(rows, e, p) == TRUE

MergeNeedsInsertEmailOnly(rows, e, p) == Truthy(e) /\ ~HasEmail(rows, e)

(* the negation of (!email || hasEmail) && (!phoneNumber || hasPhone) *)
MergeNeedsInsert(rows, e, p) ==
    ~((~Truthy(e) \/ HasEmail(rows, e)) /\ (~Truthy(p) \/ HasPhone(rows, p)))

(* the body of the 200 response built by returnResponse from an ordered chain *)
Response(chain) ==
    LET primary == chain[CHOOSE i \in 1..Len(chain) :
                           /\ chain[i].linkPrecedence = "primary"
                           /\ \A j \in 1..(i - 1) : chain[j].linkPrecedence # "primary"]
        secondaries == SelectSeq(chain, LAMBDA c : c.linkPrecedence = "secondary")
        n == Len(secondaries)
    IN [status |-> 200,
        primaryContatctId |-> primary.id,
        emails |-> UniqueTruthy(<<primary.email>>
                      \o [i \in 1..n |-> secondaries[i].email]),
        phoneNumbers |-> UniqueTruthy(<<primary.phoneNumber>>
                            \o [i \in 1..n |-> secondaries[i].phoneNumber]),
        secondaryContactIds |-> [i \in 1..n |-> secondaries[i].id]]

(* an exception thrown inside a sqlite3 callback is uncaught: the process dies and
   every request in flight is left without a response *)
Crash ==
    /\ pc' = [q \in Reqs |-> IF pc[q] \in Active THEN "crashed" ELSE pc[q]]
    /\ UNCHANGED <<res, existingContacts, contactChains, target>>

(* res.json(...) / res.status(...).json(...): the response is sent and the closure
   of the request (its matches, its Map, its chosen primary) is dropped *)
Respond(r, body) ==
    /\ res' = [res EXCEPT ![r] = body]
    /\ pc' = [pc EXCEPT ![r] = "done"]
    /\ existingContacts' = [existingContacts EXCEPT ![r] = {}]
    /\ contactChains' = [contactChains EXCEPT ![r] = <<>>]
    /\ target' = [target EXCEPT ![r] = NullId]

(* returnResponse(contacts) *)
returnResponse(r, rows) ==
    IF PrimariesOf(rows) = {}
    THEN Crash
    ELSE \E chain \in ChainOrders(rows) : Respond(r, Response(chain))

(* the .then() after Promise.all(updatePromises) *)
afterMerge(r, cc, oldestId) ==
    /\ target' = [target EXCEPT ![r] = oldestId]
    /\ pc' = [pc EXCEPT ![r] =
                IF MergeNeedsInsert(AllContacts(cc), email[r], phoneNumber[r])
                THEN "insertSecondary" ELSE "refresh"]
    /\ contactChains' = [contactChains EXCEPT ![r] = cc]
    /\ UNCHANGED <<res, existingContacts>>

(* processContactChains(), run by the callback of the last chain lookup *)
processContactChains(r, cc) ==
    IF Len(cc) = 1
    THEN LET rows == cc[1].rows IN
         IF SingleNeedsInsert(rows, email[r], phoneNumber[r])
         THEN IF PrimariesOf(rows) = {}
              THEN Crash /\ UNCHANGED demoteQ
              ELSE /\ target' = [target EXCEPT ![r] =
                                   (CHOOSE c \in PrimariesOf(rows) : TRUE).id]
                   /\ pc' = [pc EXCEPT ![r] = "insertSecondary"]
                   /\ contactChains' = [contactChains EXCEPT ![r] = cc]
                   /\ UNCHANGED <<res, existingContacts, demoteQ>>
         ELSE returnResponse(r, rows) /\ UNCHANGED demoteQ
    ELSE LET ps == PrimaryContacts(cc) IN
         IF ps = <<>>
         THEN \* oldestPrimary is undefined: the TypeError lands in .catch()
              Respond(r, Failure("Failed to merge contacts")) /\ UNCHANGED demoteQ
         ELSE LET k == OldestIndex(ps)
                  others == {ps[i].id : i \in 1..Len(ps) \ {k}}
              IN IF others = {}
                 THEN afterMerge(r, cc, ps[k].id) /\ UNCHANGED demoteQ
                 ELSE /\ target' = [target EXCEPT ![r] = ps[k].id]
                      /\ demoteQ' = [demoteQ EXCEPT ![r] = others]
                      /\ pc' = [pc EXCEPT ![r] = "demote"]
                      /\ contactChains' = [contactChains EXCEPT ![r] = cc]
                      /\ UNCHANGED <<res, existingContacts>>

----------------------------------------------------------------------------
(* Actions: one per store call of the handler, with the callback that follows it *)

Bodies == (Emails \cup {Null}) \X (Phones \cup {Null})

(* app.post('/identify'): validation, then findContactsByEmailOrPhone; its callback
   queues the insert or the chain lookups.  The handler only queues the query, so
   nothing can observe the request before the query runs: one step. *)
Receive(r, e, p, before) ==
    /\ \A q \in Reqs : pc[q] # "crashed"
    /\ email' = [email EXCEPT ![r] = e]
    /\ phoneNumber' = [phoneNumber EXCEPT ![r] = p]
    /\ snap' = [snap EXCEPT ![r] = contacts]
    /\ again' = [again EXCEPT ![r] = before]
    /\ IF ~Truthy(e) /\ ~Truthy(p)
       THEN /\ res' = [res EXCEPT ![r] = [status |-> 400]]
            /\ pc' = [pc EXCEPT ![r] = "done"]
            /\ UNCHANGED <<existingContacts, pending>>
       ELSE LET m == findContactsByEmailOrPhone(contacts, e, p) IN
            /\ res' = [res EXCEPT ![r] = NoRes]
            /\ existingContacts' = [existingContacts EXCEPT ![r] = m]
            /\ pending' = [pending EXCEPT ![r] = Lookups(m)]
            /\ pc' = [pc EXCEPT ![r] = IF m = {} THEN "insertPrimary" ELSE "chains"]
    /\ UNCHANGED <<contacts, contactChains, target, demoteQ, reparentQ>>

(* a client sends a request *)
Identify(r, e, p) ==
    /\ pc[r] = "idle"
    /\ Receive(r, e, p, NullId)

(* a client that was answered sends the same request again *)
Retry(r) ==
    /\ pc[r] = "done"
    /\ res[r].status = 200
    /\ Receive(r, email[r], phoneNumber[r], res[r].primaryContatctId)

(* the client has read the response *)
Close(r) ==
    /\ pc[r] = "done"
    /\ pc' = [pc EXCEPT ![r] = "idle"]
    /\ email' = [email EXCEPT ![r] = Null]
    /\ phoneNumber' = [phoneNumber EXCEPT ![r] = Null]
    /\ res' = [res EXCEPT ![r] = NoRes]
    /\ snap' = [snap EXCEPT ![r] = <<>>]
    /\ again' = [again EXCEPT ![r] = NullId]
    /\ UNCHANGED <<contacts, locals, started>>

(* INSERT ... 'primary' of the no-match branch, and its response *)
InsertPrimaryDone(r) ==
    /\ pc[r] = "insertPrimary"
    /\ Len(contacts) < MaxContacts
    /\ \E t \in CurrentTimestamp(contacts) :
          contacts' = Insert(contacts, email[r], phoneNumber[r], NullId, "primary", t)
    /\ Respond(r, [status |-> 200,
                   primaryContatctId |-> Len(contacts) + 1,
                   emails |-> IF Truthy(email[r]) THEN <<email[r]>> ELSE <<>>,
                   phoneNumbers |-> IF Truthy(phoneNumber[r])
                                    THEN <<phoneNumber[r]>> ELSE <<>>,
                   secondaryContactIds |-> <<>>])
    /\ UNCHANGED <<email, phoneNumber, pending, demoteQ, reparentQ, snap, started, again>>

(* one getAllContactsInChain(chainId) of the forEach runs, in any order *)
ChainLookupDone(r, l) ==
    /\ pc[r] = "chains"
    /\ l \in pending[r]
    /\ LET cc == MapSet(contactChains[r], l.chainId,
                        getAllContactsInChain(contacts, l.chainId))
       IN /\ pending' = [pending EXCEPT ![r] = TakeLookup(pending[r], l)]
          /\ IF TakeLookup(pending[r], l) = {}
             THEN processContactChains(r, cc)
             ELSE /\ contactChains' = [contactChains EXCEPT ![r] = cc]
                  /\ UNCHANGED <<pc, target, demoteQ, res, existingContacts>>
    /\ UNCHANGED <<contacts, email, phoneNumber, reparentQ, snap, started, again>>

DemoteSelfLinked(S, id, oldestId) ==
    [i \in 1..Len(S) |->
        IF S[i].id = id
        THEN [S[i] EXCEPT !.linkPrecedence = "secondary", !.linkedId = id]
        ELSE S[i]]

DemoteToggle(S, id, oldestId) ==
    [i \in 1..Len(S) |->
        IF S[i].id # id THEN S[i]
        ELSE IF S[i].linkPrecedence = "primary"
             THEN [S[i] EXCEPT !.linkPrecedence = "secondary", !.linkedId = oldestId]
             ELSE [S[i] EXCEPT !.linkPrecedence = "primary", !.linkedId = NullId]]

DemoteEveryOther(S, id, oldestId) ==
    [i \in 1..Len(S) |->
        IF S[i].id # oldestId
        THEN [S[i] EXCEPT !.linkPrecedence = "secondary", !.linkedId = oldestId]
        ELSE S[i]]

(* UPDATE Contact SET linkPrecedence = 'secondary', linkedId = ? WHERE id = ? *)
Demote(S, id, oldestId) ==
    [i \in 1..Len(S) |->
        IF S[i].id = id
        THEN [S[i] EXCEPT !.linkPrecedence = "secondary", !.linkedId = oldestId]
        ELSE S[i]]

ReparentSkipped(S, id, oldestId) == S

(* UPDATE Contact SET linkedId = ? WHERE linkedId = ? AND id != ? *)
Reparent(S, id, oldestId) ==
    [i \in 1..Len(S) |->
        IF S[i].linkedId = id /\ S[i].id # id
        THEN [S[i] EXCEPT !.linkedId = oldestId]
        ELSE S[i]]

DemoteDone(r, id) ==
    /\ pc[r] = "demote"
    /\ id \in demoteQ[r]
    /\ contacts' = Demote(contacts, id, target[r])
    /\ demoteQ' = [demoteQ EXCEPT ![r] = demoteQ[r] \ {id}]
    /\ reparentQ' = [reparentQ EXCEPT ![r] = reparentQ[r] \cup {id}]
    /\ UNCHANGED <<pc, email, phoneNumber, existingContacts, pending,
                   contactChains, target, res, snap, started, again>>

ReparentDone(r, id) ==
    /\ pc[r] = "demote"
    /\ id \in reparentQ[r]
    /\ contacts' = Reparent(contacts, id, target[r])
    /\ reparentQ' = [reparentQ EXCEPT ![r] = reparentQ[r] \ {id}]
    /\ IF demoteQ[r] = {} /\ reparentQ[r] = {id}
       THEN IF res[r] = NoRes
            THEN afterMerge(r, contactChains[r], target[r])
            ELSE Respond(r, res[r])
       ELSE UNCHANGED <<pc, target, res, existingContacts, contactChains>>
    /\ UNCHANGED <<email, phoneNumber, pending, demoteQ, snap, started, again>>

(* INSERT ... 'secondary' linked to primaryContact.id / oldestPrimary.id *)
InsertSecondaryDone(r) ==
    /\ pc[r] = "insertSecondary"
    /\ Len(contacts) < MaxContacts
    /\ \E t \in CurrentTimestamp(contacts) :
          contacts' = Insert(contacts, email[r], phoneNumber[r], target[r], "secondary", t)
    /\ pc' = [pc EXCEPT ![r] = "refresh"]
    /\ UNCHANGED <<email, phoneNumber, locals, res, snap, started, again>>

(* the chain re-read after a mutation, and returnResponse *)
RefreshDone(r) ==
    /\ pc[r] = "refresh"
    /\ returnResponse(r, getAllContactsInChain(contacts, target[r]))
    /\ UNCHANGED <<contacts, email, phoneNumber, pending, demoteQ, reparentQ,
                   snap, started, again>>

----------------------------------------------------------------------------
(* Store failures: a db.all / db.run that calls back with err.  At most one store
   call of a request fails. *)

(* findContactsByEmailOrPhone calls back with err *)
MatchFail(r, e, p) ==
    /\ pc[r] = "idle"
    /\ \A q \in Reqs : pc[q] # "crashed"
    /\ Truthy(e) \/ Truthy(p)
    /\ email' = [email EXCEPT ![r] = e]
    /\ phoneNumber' = [phoneNumber EXCEPT ![r] = p]
    /\ snap' = [snap EXCEPT ![r] = contacts]
    /\ again' = [again EXCEPT ![r] = NullId]
    /\ Respond(r, Failure("Internal server error"))
    /\ UNCHANGED <<contacts, pending, demoteQ, reparentQ, started>>

(* the INSERT of the no-match branch calls back with err *)
InsertPrimaryFail(r) ==
    /\ pc[r] = "insertPrimary"
    /\ Respond(r, Failure("Failed to create contact"))
    /\ UNCHANGED <<contacts, email, phoneNumber, pending, demoteQ, reparentQ,
                   snap, started, again>>

(* a getAllContactsInChain of the forEach calls back with err: processedContacts
   is not counted up, so processContactChains never runs; the lookups still queued
   only read *)
ChainLookupFail(r, l) ==
    /\ pc[r] = "chains"
    /\ l \in pending[r]
    /\ pending' = [pending EXCEPT ![r] = {}]
    /\ Respond(r, Failure("Failed to process contacts"))
    /\ UNCHANGED <<contacts, email, phoneNumber, demoteQ, reparentQ,
                   snap, started, again>>

(* reject(err): Promise.all rejects at once and .catch answers; the updates of the
   other promises still run *)
MergeRejected(r, dq, rq) ==
    LET body == IF res[r] = NoRes THEN Failure("Failed to merge contacts") ELSE res[r]
    IN IF dq \cup rq = {}
       THEN Respond(r, body)
       ELSE /\ res' = [res EXCEPT ![r] = body]
            /\ UNCHANGED <<pc, target, existingContacts, contactChains>>

(* the demotion UPDATE calls back with err *)
DemoteFail(r, id) ==
    /\ pc[r] = "demote"
    /\ id \in demoteQ[r]
    /\ res[r] = NoRes
    /\ demoteQ' = [demoteQ EXCEPT ![r] = demoteQ[r] \ {id}]
    /\ MergeRejected(r, demoteQ[r] \ {id}, reparentQ[r])
    /\ UNCHANGED <<contacts, email, phoneNumber, pending, reparentQ,
                   snap, started, again>>

(* the children UPDATE calls back with err, after the demotion was applied *)
ReparentFail(r, id) ==
    /\ pc[r] = "demote"
    /\ id \in reparentQ[r]
    /\ res[r] = NoRes
    /\ reparentQ' = [reparentQ EXCEPT ![r] = reparentQ[r] \ {id}]
    /\ MergeRejected(r, demoteQ[r], reparentQ[r] \ {id})
    /\ UNCHANGED <<contacts, email, phoneNumber, pending, demoteQ,
                   snap, started, again>>

(* the INSERT of a secondary calls back with err *)
InsertSecondaryFail(r) ==
    /\ pc[r] = "insertSecondary"
    /\ Respond(r, Failure("Failed to create secondary contact"))
    /\ UNCHANGED <<contacts, email, phoneNumber, pending, demoteQ, reparentQ,
                   snap, started, again>>

(* the chain re-read calls back with err *)
RefreshFail(r) ==
    /\ pc[r] = "refresh"
    /\ Respond(r, Failure(
          IF Len(contactChains[r]) = 1 THEN "Failed to refresh contacts"
          ELSE IF MergeNeedsInsert(AllContacts(contactChains[r]),
                                   email[r], phoneNumber[r])
               THEN "Failed to get final contacts"
               ELSE "Failed to get merged contacts"))
    /\ UNCHANGED <<contacts, email, phoneNumber, pending, demoteQ, reparentQ,
                   snap, started, again>>

----------------------------------------------------------------------------
(* the store calls of the request of r that have been queued *)
Serve(r) ==
    \/ InsertPrimaryDone(r)
    \/ \E l \in pending[r] : ChainLookupDone(r, l)
    \/ \E id \in demoteQ[r] : DemoteDone(r, id)
    \/ \E id \in reparentQ[r] : ReparentDone(r, id)
    \/ InsertSecondaryDone(r)
    \/ RefreshDone(r)

Step(r) ==
    \/ Close(r)
    \/ Serve(r)

(* requests served one at a time, any number of them *)
Next ==
    \/ \E b \in Bodies : Identify("r1", b[1], b[2]) /\ UNCHANGED started
    \/ Retry("r1") /\ UNCHANGED started
    \/ Step("r1")

Spec == Init /\ [][Next]_vars

StepFail(r) ==
    \/ \E b \in Bodies : MatchFail(r, b[1], b[2])
    \/ InsertPrimaryFail(r)
    \/ \E l \in pending[r] : ChainLookupFail(r, l)
    \/ \E id \in demoteQ[r] : DemoteFail(r, id)
    \/ \E id \in reparentQ[r] : ReparentFail(r, id)
    \/ InsertSecondaryFail(r)
    \/ RefreshFail(r)

(* requests served one at a time, with store calls that may fail *)
NextFail ==
    \/ Next
    \/ StepFail("r1")

SpecFail == Init /\ [][NextFail]_vars

(* two connections whose requests' store calls interleave, in runs of at most
   MaxRequests requests *)
NextConc ==
    \E r \in Reqs :
        \/ \E b \in Bodies :
              started < MaxRequests /\ Identify(r, b[1], b[2]) /\ started' = started + 1
        \/ Step(r)

SpecConc == Init /\ [][NextConc]_vars

(* The tables left by n requests that matched nothing, served one at a time: n
   primaries that share no email and no phoneNumber *)
Grow(S) ==
    {Insert(S, b[1], b[2], NullId, "primary", t) :
        b \in {x \in Bodies : /\ Truthy(x[1]) \/ Truthy(x[2])
                              /\ findContactsByEmailOrPhone(S, x[1], x[2]) = {}},
        t \in CurrentTimestamp(S)}

RECURSIVE Grown(_)
Grown(n) == IF n = 0 THEN {<<>>} ELSE UNION {Grow(S) : S \in Grown(n - 1)}

InitSeeded ==
    /\ contacts \in Grown(SeedRows - 1) \cup Grown(SeedRows)
    /\ Idle

(* two connections, MaxMergers requests in all, on a table of SeedRows - 1 or
   SeedRows primaries *)
NextSeeded ==
    \E r \in Reqs :
        \/ \E b \in Bodies :
              started < MaxMergers /\ Identify(r, b[1], b[2]) /\ started' = started + 1
        \/ Serve(r)

SpecSeeded == InitSeeded /\ [][NextSeeded]_vars

----------------------------------------------------------------------------
(* Vocabulary of the properties: the data model of the table, stated on a table S
   and on the table snap[r] a request started from *)

IsPrimary(c) == c.linkPrecedence = "primary"

IsSecondary(c) == c.linkPrecedence = "secondary"

(* the chain of primary k: k itself and every row whose linkedId is k *)
Members(S, k) == {c \in Rows(S) : c.id = k \/ c.linkedId = k}

Matched(S, e, p) ==
    {c \in Rows(S) : (e # Null /\ c.email = e) \/ (p # Null /\ c.phoneNumber = p)}

MatchedChains(S, e, p) ==
    {IF IsPrimary(c) THEN c.id ELSE c.linkedId : c \in Matched(S, e, p)}

EmailKnown(S, k, e) == \E c \in Members(S, k) : c.email = e

PhoneKnown(S, k, p) == \E c \in Members(S, k) : c.phoneNumber = p

Supplied(r) == email[r] # Null \/ phoneNumber[r] # Null

(* the request of r met exactly one chain in the table it started from *)
SingleChain(r) == Cardinality(MatchedChains(snap[r], email[r], phoneNumber[r])) = 1

TheChain(r) == CHOOSE k \in MatchedChains(snap[r], email[r], phoneNumber[r]) : TRUE

(* every field the request supplies is already in that chain *)
NothingNew(r) ==
    /\ email[r] # Null => EmailKnown(snap[r], TheChain(r), email[r])
    /\ phoneNumber[r] # Null => PhoneKnown(snap[r], TheChain(r), phoneNumber[r])

Quiet == \A r \in Reqs : pc[r] \in {"idle", "done"}

----------------------------------------------------------------------------
(* C1: once a request has completed (requests one at a time), every secondary's
   linkedId is the id of a row that is primary *)
C1_Flatness ==
    Quiet => \A c \in Rows(contacts) :
                IsSecondary(c) =>
                    \E q \in Rows(contacts) : q.id = c.linkedId /\ IsPrimary(q)

(* a request has completed that re-pointed a secondary of a demoted primary *)
C1_Witness ==
    /\ pc["r1"] = "done"
    /\ \E i \in 1..Len(snap["r1"]) :
          /\ IsSecondary(snap["r1"][i])
          /\ contacts[i].linkedId # snap["r1"][i].linkedId

(* C2: in every reachable state of the table, every chain (the rows sharing one
   chainId) has exactly one primary member *)
C2_OnePrimaryPerChain ==
    \A c \in Rows(contacts) :
        Cardinality({q \in Rows(contacts) :
                        ChainIdOf(q) = ChainIdOf(c) /\ IsPrimary(q)}) = 1

(* C3: a request that meets one chain in which every field it supplies is already
   present mutates nothing *)
C3_NoMutationWhenKnown ==
    \A r \in Reqs :
        (pc[r] # "idle" /\ Supplied(r) /\ SingleChain(r) /\ NothingNew(r))
            => contacts = snap[r] /\ pc[r] \in {"chains", "done"}

(* C4: a request carrying both fields, sent again after it was answered, with both
   values known in one chain, adds no contact and is answered the same primary *)
C4_Idempotence ==
    \A r \in Reqs :
        (/\ again[r] # NullId
         /\ email[r] # Null /\ phoneNumber[r] # Null
         /\ \E k \in 1..Len(snap[r]) :
               /\ IsPrimary(snap[r][k])
               /\ EmailKnown(snap[r], k, email[r])
               /\ PhoneKnown(snap[r], k, phoneNumber[r]))
            => /\ Len(contacts) = Len(snap[r])
               /\ pc[r] \in {"chains", "done"}
               /\ pc[r] = "done" => /\ res[r].status = 200
                                    /\ res[r].primaryContatctId = again[r]

(* the repeated request has been answered for a chain that has secondaries *)
C4_Witness ==
    /\ pc["r1"] = "done"
    /\ again["r1"] # NullId
    /\ email["r1"] # Null /\ phoneNumber["r1"] # Null
    /\ res["r1"].status = 200
    /\ Len(res["r1"].secondaryContactIds) >= 1

(* the request of r met the chains of two primaries a and b, a created first *)
MetTwo(r, a, b) ==
    /\ pc[r] # "idle"
    /\ a \in 1..Len(snap[r]) /\ b \in 1..Len(snap[r])
    /\ MatchedChains(snap[r], email[r], phoneNumber[r]) = {a, b}
    /\ IsPrimary(snap[r][a]) /\ IsPrimary(snap[r][b])
    /\ snap[r][a].createdAt < snap[r][b].createdAt

Merged == {"insertSecondary", "refresh", "done"}

(* C5: a request that meets the chains of primaries A (created first) and B leaves A
   primary, B secondary under A and every secondary of B under A, and is answered
   A as primary with B among the secondary ids *)
C5_MergeCorrect ==
    \A r \in Reqs : \A a, b \in 1..Len(snap[r]) :
        MetTwo(r, a, b) =>
            /\ pc[r] \in Merged =>
                  /\ IsPrimary(contacts[a])
                  /\ IsSecondary(contacts[b]) /\ contacts[b].linkedId = a
                  /\ \A i \in 1..Len(snap[r]) :
                        snap[r][i].linkedId = b => contacts[i].linkedId = a
            /\ pc[r] = "done" =>
                  /\ res[r].status = 200
                  /\ res[r].primaryContatctId = a
                  /\ b \in Range(res[r].secondaryContactIds)

(* such a merge has been answered, and B had a secondary *)
C5_Witness ==
    /\ pc["r1"] = "done"
    /\ \E a, b \in 1..Len(snap["r1"]) :
          /\ MetTwo("r1", a, b)
          /\ \E i \in 1..Len(snap["r1"]) : snap["r1"][i].linkedId = b

(* the primary that is first by (createdAt, id) among the chains the request met *)
FirstPrimary(r) ==
    CHOOSE k \in MatchedChains(snap[r], email[r], phoneNumber[r]) :
        \A j \in MatchedChains(snap[r], email[r], phoneNumber[r]) \ {k} :
            \/ snap[r][k].createdAt < snap[r][j].createdAt
            \/ snap[r][k].createdAt = snap[r][j].createdAt /\ k < j

(* C6: in a merge the primary with the smallest createdAt survives and, among equal
   createdAt, the one with the smallest id, whatever the order of the lookups *)
C6_OldestThenSmallestId ==
    \A r \in Reqs :
        (/\ pc[r] \in Merged
         /\ Cardinality(MatchedChains(snap[r], email[r], phoneNumber[r])) >= 2)
            => /\ IsPrimary(contacts[FirstPrimary(r)])
               /\ pc[r] = "done" => res[r].primaryContatctId = FirstPrimary(r)

(* the request of r met one chain and supplies a field that chain does not have *)
Extends(r) == pc[r] # "idle" /\ SingleChain(r) /\ ~NothingNew(r)

Added(r) == contacts[Len(snap[r]) + 1]

Position(L, v) == CHOOSE i \in 1..Len(L) : L[i] = v

(* the store part of C7: exactly one row is added, a secondary of the chain's
   primary that carries both fields of the request *)
OneSecondaryAdded(r) ==
    /\ pc[r] \in {"chains", "insertSecondary", "refresh", "done"}
    /\ pc[r] \in {"chains", "insertSecondary"} => contacts = snap[r]
    /\ pc[r] \in {"refresh", "done"} =>
          /\ Len(contacts) = Len(snap[r]) + 1
          /\ SubSeq(contacts, 1, Len(snap[r])) = snap[r]
          /\ IsSecondary(Added(r))
          /\ Added(r).linkedId = TheChain(r)
          /\ IsPrimary(snap[r][TheChain(r)])
          /\ Added(r).email = email[r]
          /\ Added(r).phoneNumber = phoneNumber[r]

(* C7 as stated: ... and the answer lists the new row among the secondary ids and
   the new value after all the others *)
C7_ExtendNewValueLast ==
    \A r \in Reqs :
        Extends(r) =>
            /\ OneSecondaryAdded(r)
            /\ pc[r] = "done" =>
                  /\ res[r].status = 200
                  /\ Added(r).id \in Range(res[r].secondaryContactIds)
                  /\ ~EmailKnown(snap[r], TheChain(r), email[r]) =>
                        res[r].emails[Len(res[r].emails)] = email[r]
                  /\ ~PhoneKnown(snap[r], TheChain(r), phoneNumber[r]) =>
                        res[r].phoneNumbers[Len(res[r].phoneNumbers)] = phoneNumber[r]

(* the rows of the chain that ORDER BY places before the added row: the primary and
   the secondaries created in an earlier second *)
Earlier(r) ==
    {c \in Members(snap[r], TheChain(r)) :
        IsPrimary(c) \/ c.createdAt < Added(r).createdAt}

(* C7, amended: ... and the answer lists the new row among the secondary ids and the
   new value after the values of the primary and of the secondaries created in an
   earlier second *)
C7_ExtendNewValueAfterEarlier ==
    \A r \in Reqs :
        Extends(r) =>
            /\ OneSecondaryAdded(r)
            /\ pc[r] = "done" =>
                  /\ res[r].status = 200
                  /\ Added(r).id \in Range(res[r].secondaryContactIds)
                  /\ ~EmailKnown(snap[r], TheChain(r), email[r]) =>
                        /\ email[r] \in Range(res[r].emails)
                        /\ \A c \in Earlier(r) : c.email # Null =>
                              Position(res[r].emails, c.email)
                                  < Position(res[r].emails, email[r])
                  /\ ~PhoneKnown(snap[r], TheChain(r), phoneNumber[r]) =>
                        /\ phoneNumber[r] \in Range(res[r].phoneNumbers)
                        /\ \A c \in Earlier(r) : c.phoneNumber # Null =>
                              Position(res[r].phoneNumbers, c.phoneNumber)
                                  < Position(res[r].phoneNumbers, phoneNumber[r])

(* a chain that already had a secondary has been extended and answered *)
C7_Witness ==
    /\ pc["r1"] = "done"
    /\ Extends("r1")
    /\ res["r1"].status = 200
    /\ Len(res["r1"].secondaryContactIds) >= 2

(* C8: a request that matches no row adds exactly one row, a primary without link
   that carries the request's fields, changes no other row, and is answered that
   row's id, the supplied values alone and no secondary id *)
C8_NoMatchCreatesPrimary ==
    \A r \in Reqs :
        (pc[r] # "idle" /\ Supplied(r) /\ Matched(snap[r], email[r], phoneNumber[r]) = {})
            => /\ pc[r] \in {"insertPrimary", "done"}
               /\ pc[r] = "insertPrimary" => contacts = snap[r]
               /\ pc[r] = "done" =>
                     /\ contacts = Append(snap[r],
                           [id |-> Len(snap[r]) + 1, email |-> email[r],
                            phoneNumber |-> phoneNumber[r], linkedId |-> NullId,
                            linkPrecedence |-> "primary",
                            createdAt |-> Added(r).createdAt, deletedAt |-> Null])
                     /\ res[r] = [status |-> 200,
                                  primaryContatctId |-> Len(snap[r]) + 1,
                                  emails |-> IF email[r] = Null THEN <<>>
                                             ELSE <<email[r]>>,
                                  phoneNumbers |-> IF phoneNumber[r] = Null THEN <<>>
                                                   ELSE <<phoneNumber[r]>>,
                                  secondaryContactIds |-> <<>>]

(* a primary has been created beside rows that were already there *)
C8_Witness ==
    /\ pc["r1"] = "done"
    /\ Supplied("r1")
    /\ Matched(snap["r1"], email["r1"], phoneNumber["r1"]) = {}
    /\ Len(snap["r1"]) >= 1
    /\ email["r1"] # Null /\ phoneNumber["r1"] # Null

FirstIndex(src, v) ==
    CHOOSE i \in 1..Len(src) : src[i] = v /\ \A j \in 1..(i - 1) : src[j] # v

(* L lists the values of src other than NULL, once each, in the order of their first
   occurrence in src *)
ListsOnce(L, src) ==
    /\ \A i, j \in 1..Len(L) : i # j => L[i] # L[j]
    /\ Range(L) = Range(src) \ {Null}
    /\ \A i, j \in 1..Len(L) : i < j => FirstIndex(src, L[i]) < FirstIndex(src, L[j])

(* C9: the answer's secondary ids are the chain's other rows by ascending createdAt;
   its emails and phoneNumbers hold no duplicate and no NULL, start with the
   primary's value when it has one, and go on with the secondaries' values in that
   order, each value once *)
C9_ResponseLists ==
    \A r \in Reqs :
        (Quiet /\ pc[r] = "done" /\ res[r].status = 200) =>
            LET pr == contacts[res[r].primaryContatctId]
                secs == res[r].secondaryContactIds
            IN /\ IsPrimary(pr)
               /\ \A i, j \in 1..Len(secs) : i # j => secs[i] # secs[j]
               /\ Range(secs) = {c.id : c \in Members(contacts, pr.id)} \ {pr.id}
               /\ \A i, j \in 1..Len(secs) :
                     i < j => contacts[secs[i]].createdAt <= contacts[secs[j]].createdAt
               /\ ListsOnce(res[r].emails,
                     <<pr.email>> \o [i \in 1..Len(secs) |-> contacts[secs[i]].email])
               /\ ListsOnce(res[r].phoneNumbers,
                     <<pr.phoneNumber>>
                        \o [i \in 1..Len(secs) |-> contacts[secs[i]].phoneNumber])
               /\ pr.email # Null => res[r].emails[1] = pr.email
               /\ pr.phoneNumber # Null => res[r].phoneNumbers[1] = pr.phoneNumber

(* an answer for a chain with two secondaries, one repeating a value of the chain
   and one without email *)
C9_Witness ==
    /\ pc["r1"] = "done"
    /\ res["r1"].status = 200
    /\ Len(res["r1"].secondaryContactIds) = 2
    /\ Len(res["r1"].emails) = 1
    /\ Len(res["r1"].phoneNumbers) = 2

(* C10: two requests with the same body that start from the same table, in which
   they meet one chain that lacks a field they supply, add at most one row *)
C10_OneSecondaryPerFact ==
    \A r, q \in Reqs :
        (/\ r # q
         /\ pc[r] = "done" /\ pc[q] = "done"
         /\ email[r] = email[q] /\ phoneNumber[r] = phoneNumber[q]
         /\ snap[r] = snap[q]
         /\ Extends(r))
            => Len(contacts) <= Len(snap[r]) + 1

(* the request of r met two chains or more in the table it started from *)
Merging(r) ==
    /\ pc[r] # "idle"
    /\ Cardinality(MatchedChains(snap[r], email[r], phoneNumber[r])) >= 2

(* the ids of the rows of the chains the request met *)
MetIds(r) ==
    UNION {{c.id : c \in Members(snap[r], k)} :
              k \in MatchedChains(snap[r], email[r], phoneNumber[r])}

(* the rows with these ids are one flat chain: one primary, the others linked to it *)
OneFlatChain(ids) ==
    \E k \in ids :
        /\ IsPrimary(contacts[k])
        /\ \A i \in ids \ {k} : IsSecondary(contacts[i]) /\ contacts[i].linkedId = k

(* two requests that started from the same table, each meeting two chains or more,
   with a chain in common *)
Overlapping(r, q) ==
    /\ r # q
    /\ Merging(r) /\ Merging(q)
    /\ snap[r] = snap[q]
    /\ MatchedChains(snap[r], email[r], phoneNumber[r])
          \cap MatchedChains(snap[q], email[q], phoneNumber[q]) # {}

(* C11: once two concurrent requests that merge overlapping sets of chains have both
   been answered, the rows of these chains form one chain with exactly one primary
   and every other row linked directly to it *)
C11_OneMergeWins ==
    \A r, q \in Reqs :
        (Overlapping(r, q) /\ pc[r] = "done" /\ pc[q] = "done")
            => OneFlatChain(MetIds(r) \cup MetIds(q))

(* the rows added to the table since the request of r was received *)
AddedSince(r) == {contacts[i] : i \in (Len(snap[r]) + 1)..Len(contacts)}

(* C12: two concurrent requests leave what serving them one after the other leaves;
   for two requests with the same body that match nothing in the table they both
   started from (the empty table among them) that is one new chain: the first
   creates a primary and the second finds it, so exactly one primary is added *)
C12_SameBodyOneChain ==
    \A r, q \in Reqs :
        (/\ r # q
         /\ pc[r] = "done" /\ pc[q] = "done"
         /\ res[r].status = 200 /\ res[q].status = 200
         /\ email[r] = email[q] /\ phoneNumber[r] = phoneNumber[q]
         /\ snap[r] = snap[q]
         /\ Matched(snap[r], email[r], phoneNumber[r]) = {})
            => Cardinality({c \in AddedSince(r) : IsPrimary(c)}) = 1

(* every secondary is linked to a row that is primary *)
Flat ==
    \A c \in Rows(contacts) :
        IsSecondary(c) => \E q \in Rows(contacts) : q.id = c.linkedId /\ IsPrimary(q)

(* the error texts the handler answers when a write of the merge path failed *)
MergeWriteErrors == {"Failed to merge contacts", "Failed to create secondary contact"}

(* C13: a merge whose demotion, reparenting or insert failed leaves the table as it
   was when the request was received, with every secondary linked to a primary *)
C13_MergeRolledBack ==
    \A r \in Reqs :
        (/\ Merging(r)
         /\ pc[r] = "done" /\ res[r].status = 500
         /\ res[r].error \in MergeWriteErrors)
            => contacts = snap[r] /\ Flat

(* the error texts the handler answers when a read failed: the match lookup, a chain
   lookup, the chain re-read *)
ReadErrors ==
    {"Internal server error", "Failed to process contacts",
     "Failed to refresh contacts", "Failed to get merged contacts",
     "Failed to get final contacts"}

(* C14: a request answered with the error of a failed read has changed nothing in
   the table *)
C14_ReadFailureNoMutation ==
    \A r \in Reqs :
        (pc[r] = "done" /\ res[r].status = 500 /\ res[r].error \in ReadErrors)
            => contacts = snap[r]

(* C15: a request with neither email nor phoneNumber is answered 400 at once: no
   match lookup, no chain lookup, no write is queued and the table is unchanged *)
C15_ValidationRejects ==
    \A r \in Reqs :
        (pc[r] # "idle" /\ ~Supplied(r))
            => /\ pc[r] = "done"
               /\ res[r] = [status |-> 400]
               /\ contacts = snap[r]
               /\ existingContacts[r] = {} /\ pending[r] = {}
               /\ contactChains[r] = <<>>
               /\ demoteQ[r] = {} /\ reparentQ[r] = {}

(* an empty request has been rejected on a table that holds contacts *)
C15_Witness ==
    /\ pc["r1"] = "done"
    /\ ~Supplied("r1")
    /\ res["r1"].status = 400
    /\ Len(contacts) >= 2

(* C16: once a request has completed (requests one at a time), the primary of every
   chain was created no later than any other row of the chain, the rows that were
   primary before a merge among them *)
C16_PrimaryIsEarliest ==
    Quiet => \A c \in Rows(contacts) :
                IsSecondary(c) =>
                    \E q \in Rows(contacts) :
                        /\ q.id = c.linkedId
                        /\ IsPrimary(q)
                        /\ q.createdAt <= c.createdAt

(* a merge has completed that demoted a primary created in a later second, which
   had a secondary of its own *)
C16_Witness ==
    /\ pc["r1"] = "done"
    /\ \E i, j \in 1..Len(snap["r1"]) :
          /\ IsPrimary(snap["r1"][i])
          /\ IsSecondary(contacts[i])
          /\ contacts[contacts[i].linkedId].createdAt < contacts[i].createdAt
          /\ snap["r1"][j].linkedId = i

(* row i keeps its id, email, phoneNumber, createdAt and deletedAt in this step *)
KeepsFacts(i) ==
    /\ contacts'[i].id = contacts[i].id
    /\ contacts'[i].email = contacts[i].email
    /\ contacts'[i].phoneNumber = contacts[i].phoneNumber
    /\ contacts'[i].createdAt = contacts[i].createdAt
    /\ contacts'[i].deletedAt = contacts[i].deletedAt

(* row i is demoted in this step: a primary that becomes secondary *)
IsDemoted(i) == IsPrimary(contacts[i]) /\ IsSecondary(contacts'[i])

(* row i is re-pointed in this step: a secondary of a row that has been demoted *)
IsRepointed(i) ==
    /\ IsSecondary(contacts[i]) /\ IsSecondary(contacts'[i])
    /\ \E d \in 1..Len(contacts) :
          contacts[i].linkedId = d /\ IsSecondary(contacts[d])

(* C17: with requests one at a time, no step removes a row or changes the id,
   email, phoneNumber, createdAt or deletedAt of a row; a step changes linkPrecedence
   or linkedId of a row only for a request that met two chains or more, and only of a
   row of these chains that is demoted or is a secondary of a demoted row; requests
   that matched nothing or met one chain change no existing row *)
C17_Frame ==
    [][ /\ Len(contacts') >= Len(contacts)
        /\ \A i \in 1..Len(contacts) :
              /\ KeepsFacts(i)
              /\ contacts'[i] # contacts[i] =>
                    /\ \E r \in Reqs : Merging(r) /\ i \in MetIds(r)
                    /\ IsDemoted(i) \/ IsRepointed(i) ]_vars

(* a merge has demoted a primary and re-pointed the secondary it had *)
C17_Witness ==
    /\ pc["r1"] = "refresh"
    /\ Merging("r1")
    /\ \E i, j \in 1..Len(snap["r1"]) :
          /\ IsPrimary(snap["r1"][i]) /\ IsSecondary(contacts[i])
          /\ snap["r1"][j].linkedId = i /\ contacts[j].linkedId # i

(* C18: in no state of the table, the states in the middle of a merge included,
   is a row linked to a row that is secondary *)
C18_NeverLinkedToSecondary ==
    \A c \in Rows(contacts) :
        ~\E q \in Rows(contacts) : q.id = c.linkedId /\ IsSecondary(q)

(* C19: for every chain with a primary and a secondary, getAllContactsInChain
   returns the primary first and then the secondaries by ascending createdAt *)
C19_PrimaryFirst ==
    \A k \in 1..Len(contacts) :
        (IsPrimary(contacts[k]) /\ \E c \in Rows(contacts) : c.linkedId = k)
            => \A chain \in ChainOrders(getAllContactsInChain(contacts, k)) :
                  /\ chain[1].id = k
                  /\ \A i, j \in 2..Len(chain) :
                        i < j => /\ IsSecondary(chain[i]) /\ IsSecondary(chain[j])
                                 /\ chain[i].createdAt <= chain[j].createdAt

(* the request of r is on the merge path: its chain lookups filled two entries or
   more of its Map *)
OnMergePath(r) == Len(contactChains[r]) >= 2

(* the contacts of the chains the request merges, as its chain lookups returned them *)
RowsRead(r) == UNION {contactChains[r][i].rows : i \in 1..Len(contactChains[r])}

(* the request supplies an email or a phoneNumber that none of these contacts has *)
NovelOnMerge(r) ==
    \/ email[r] # Null /\ \A c \in RowsRead(r) : c.email # email[r]
    \/ phoneNumber[r] # Null /\ \A c \in RowsRead(r) : c.phoneNumber # phoneNumber[r]

(* the primary that survives the merge of r: created first among the primaries read *)
Survives(r, k) ==
    \E a \in RowsRead(r) :
        /\ a.id = k /\ IsPrimary(a)
        /\ \A b \in RowsRead(r) : IsPrimary(b) => a.createdAt <= b.createdAt

(* the step adds one row for the request of r: a secondary of the surviving primary
   that carries the request's fields *)
AddsMergedSecondary(r) ==
    /\ Len(contacts') = Len(contacts) + 1
    /\ SubSeq(contacts', 1, Len(contacts)) = contacts
    /\ IsSecondary(contacts'[Len(contacts')])
    /\ Survives(r, contacts'[Len(contacts')].linkedId)
    /\ contacts'[Len(contacts')].email = email[r]
    /\ contacts'[Len(contacts')].phoneNumber = phoneNumber[r]

(* C20: on the merge path, when demotion and reparenting are over, the request
   goes on to insert if and only if it supplies an email or phoneNumber that none of
   the contacts of the merged chains has; the insert adds one secondary linked to the
   surviving primary, and without it the request adds nothing *)
C20_MergeInsertIffNovel ==
    [][ \A r \in Reqs :
          /\ (pc[r] \in {"chains", "demote"} /\ pc'[r] \in {"insertSecondary", "refresh"}
                 /\ OnMergePath(r)')
                => (pc'[r] = "insertSecondary" <=> NovelOnMerge(r)')
          /\ (pc[r] = "insertSecondary" /\ pc'[r] = "refresh" /\ OnMergePath(r))
                => AddsMergedSecondary(r)
          /\ (pc[r] \in {"chains", "demote", "refresh"} /\ pc'[r] # pc[r]
                 /\ (OnMergePath(r) \/ OnMergePath(r)'))
                => Len(contacts') = Len(contacts) ]_vars

(* a merging request has inserted its secondary and another has gone on without *)
C20_Witness ==
    /\ pc["r1"] = "refresh" /\ OnMergePath("r1") /\ NovelOnMerge("r1")
    /\ contacts[Len(contacts)].email = email["r1"]
    /\ contacts[Len(contacts)].phoneNumber = phoneNumber["r1"]
    /\ pc["r2"] = "done" /\ Merging("r2") /\ res["r2"].status = 200

(* c and d carry the same email or the same phoneNumber *)
ShareValue(c, d) ==
    \/ c.email # Null /\ c.email = d.email
    \/ c.phoneNumber # Null /\ c.phoneNumber = d.phoneNumber

(* C21: once a request has completed (requests one at a time), two rows that carry
   the same email or the same phoneNumber are in the same chain *)
C21_ValueInOneChain ==
    Quiet => \A c, d \in Rows(contacts) :
                ShareValue(c, d) => ChainIdOf(c) = ChainIdOf(d)

(* two chains are left, and a value is carried by two rows of one of them *)
C21_Witness ==
    /\ Quiet
    /\ Len(contacts) = 3
    /\ \E c, d \in Rows(contacts) :
          /\ c.id # d.id /\ ShareValue(c, d)
          /\ IsSecondary(d) /\ d.createdAt > c.createdAt
    /\ \E c, d \in Rows(contacts) : ChainIdOf(c) # ChainIdOf(d)

(* C22: with requests one at a time, a request meets two chains at most, and a
   request that meets two goes on without inserting: it adds no row *)
C22_TwoChainsNoInsert ==
    \A r \in Reqs :
        pc[r] # "idle" =>
            /\ Cardinality(MatchedChains(snap[r], email[r], phoneNumber[r])) <= 2
            /\ Merging(r) => /\ pc[r] # "insertSecondary"
                              /\ Len(contacts) = Len(snap[r])

(* a request that met two chains has merged them and been answered *)
C22_Witness ==
    /\ pc["r1"] = "done"
    /\ Merging("r1")
    /\ res["r1"].status = 200
    /\ Len(res["r1"].secondaryContactIds) = 2

(* the request of r has been answered *)
Answered(r) == res[r] # NoRes

(* a store call of the request of r runs in this step and changes the table *)
Mutates(r) ==
    /\ contacts' # contacts
    /\ \/ pc'[r] # pc[r]
       \/ demoteQ'[r] # demoteQ[r]
       \/ reparentQ'[r] # reparentQ[r]

(* C23: every request gets exactly one response: no request is left without one by
   a handler that died, a response that was sent is not followed by another for the
   same request, and a request that has been answered changes the table no more *)
C23_OneResponseThenNothing ==
    /\ [](\A r \in Reqs : pc[r] # "crashed")
    /\ [][ \A r \in Reqs :
              (Answered(r) /\ pc[r] \notin {"idle", "done"})
                  => res'[r] = res[r] /\ ~Mutates(r) ]_vars

(* C24: in every state of the table, between the store calls of a request too, a row
   is primary exactly when its linkedId is NULL, no row is linked to itself, and
   every linkedId that is not NULL is the id of a row of the table *)
C24_WellFormedRows ==
    \A c \in Rows(contacts) :
        /\ IsPrimary(c) <=> c.linkedId = NullId
        /\ c.linkedId # c.id
        /\ c.linkedId # NullId => c.linkedId \in 1..Len(contacts)

(* C25: a row that is secondary is secondary in the next state of the table, whatever
   step of whatever request comes next *)
C25_StaysSecondary ==
    [][ \A i \in 1..Len(contacts) :
          IsSecondary(contacts[i])
              => Len(contacts') >= i /\ IsSecondary(contacts'[i]) ]_vars

(* a row that a merge had already demoted has been demoted again by the merge of the
   other request, and both requests have been answered *)
C25_Witness ==
    /\ pc["r1"] = "done" /\ pc["r2"] = "done"
    /\ Overlapping("r1", "r2")
    /\ \E i \in 1..Len(snap["r1"]) :
          /\ IsPrimary(snap["r1"][i]) /\ IsSecondary(contacts[i])
          /\ \A r \in Reqs :
                \E a \in MatchedChains(snap[r], email[r], phoneNumber[r]) :
                    snap[r][a].createdAt < snap[r][i].createdAt
          /\ i \in MatchedChains(snap["r1"], email["r1"], phoneNumber["r1"])
                  \cap MatchedChains(snap["r2"], email["r2"], phoneNumber["r2"])

(* rows i and j of table S are in the same chain *)
SameChain(S, i, j) == ChainIdOf(S[i]) = ChainIdOf(S[j])

(* C26: with requests one at a time, two rows that were in the same chain when a
   request was received are in the same chain when it has completed, the request
   has added one row at most, and no step takes a row away *)
C26_ChainsOnlyGrow ==
    /\ [](\A r \in Reqs :
            pc[r] = "done" =>
                /\ Len(contacts) \in {Len(snap[r]), Len(snap[r]) + 1}
                /\ \A i, j \in 1..Len(snap[r]) :
                      SameChain(snap[r], i, j) => SameChain(contacts, i, j))
    /\ [][Len(contacts') >= Len(contacts)]_vars

(* a request has completed that moved a chain of two rows under another primary *)
C26_Witness ==
    /\ pc["r1"] = "done"
    /\ \E i, j \in 1..Len(snap["r1"]) :
          /\ i # j
          /\ SameChain(snap["r1"], i, j)
          /\ ChainIdOf(contacts[i]) # ChainIdOf(snap["r1"][i])
          /\ SameChain(contacts, i, j)

(* C27: with requests one at a time, a 200 response describes the table as the
   request leaves it: its primary id is the primary of the chain that holds every
   row the request matches, its secondary ids are the other rows of that chain, its
   emails and phoneNumbers are the values other than NULL of the rows of that chain,
   and the email and phoneNumber of the request are among them *)
C27_ResponseDescribesStore ==
    \A r \in Reqs :
        (pc[r] = "done" /\ res[r].status = 200) =>
            LET p == res[r].primaryContatctId
                M == Members(contacts, p)
            IN /\ p \in 1..Len(contacts) /\ IsPrimary(contacts[p])
               /\ Matched(contacts, email[r], phoneNumber[r]) \subseteq M
               /\ {c.id : c \in Matched(snap[r], email[r], phoneNumber[r])}
                     \subseteq {c.id : c \in M}
               /\ Range(res[r].secondaryContactIds) = {c.id : c \in M} \ {p}
               /\ Range(res[r].emails) = {c.email : c \in M} \ {Null}
               /\ Range(res[r].phoneNumbers) = {c.phoneNumber : c \in M} \ {Null}
               /\ email[r] # Null => email[r] \in Range(res[r].emails)
               /\ phoneNumber[r] # Null => phoneNumber[r] \in Range(res[r].phoneNumbers)

(* a merge of a chain of two rows with another chain has been answered *)
C27_Witness ==
    /\ pc["r1"] = "done"
    /\ Merging("r1")
    /\ res["r1"].status = 200
    /\ Len(res["r1"].secondaryContactIds) = 2
    /\ Len(res["r1"].emails) = 2
    /\ Len(res["r1"].phoneNumbers) = 2

====
